---- MODULE Spec2Model ----
(***************************************************************************)
(* Smart Music Recommender: the song selector (app.py and recommender.py), *)
(* the announcer decision inside suggest_music, and the mood cooldown gate *)
(* of process_camera_frame.                                                *)
(*                                                                         *)
(* Text values are sequences of one-character strings, so that lower(),    *)
(* strip(), equality and pandas' str.contains are computed on the          *)
(* characters.  The missing value of a CSV cell (pandas NaN) and Python's  *)
(* None are one-element sequences holding a token that is no character.    *)
(***************************************************************************)
EXTENDS Integers, Sequences, FiniteSets, TLC

VARIABLES
    q,                  \* selector run: the catalog file and the call's arguments
    out,                \* selector run: what the call did (None-like before the call)
    now,                \* time.time(), in whole seconds
    last_mood,          \* app.py global last_mood
    last_suggest_time,  \* app.py global last_suggest_time
    songs,              \* the songs.csv file the application reads
    prefs,              \* the logged-in user's row of the users table
    cam,                \* camera loop: "running", or "crashed" after an uncaught exception
    ev,                 \* the camera frame handled by the latest step, if any
    th,                 \* camera_loop._update on the camera thread and on the Tk thread
    after_q,            \* root.after(30, _update) callbacks waiting in the Tk event loop
    speak_queue,        \* _speak_queue: the (text, lang) items waiting
    unfinished_tasks,   \* _speak_queue.unfinished_tasks
    stop_event,         \* _speaker_stop_event
    worker,             \* the _speaker_loop thread: its position and the item in hand
    puts,               \* items enqueued so far, in order of their put
    handled,            \* items dequeued so far, in order of their get
    done                \* items task_done was called for, in order

camVars == <<th, after_q>>
ttsVars == <<speak_queue, unfinished_tasks, stop_event, worker, puts, handled, done>>

vars ==
    <<q, out, now, last_mood, last_suggest_time, songs, prefs, cam, ev, camVars,
      ttsVars>>

-----------------------------------------------------------------------------
(* Bounds *)

MaxCatalog == 2     \* rows in a catalog file
MaxNum == 2         \* recommender.suggest_music's num
StartTime == 100    \* the clock when the main window opens (an epoch clock is far from 0)
Horizon == 33       \* seconds of clock the gate is followed for
CamHorizon == 6     \* seconds of clock the camera threads are followed for
MaxSpeak == 3       \* calls of speak that are followed
ManualHorizon == 6  \* seconds of clock the manual recommendations are followed for

-----------------------------------------------------------------------------
(* Values *)

NaN == <<"NaN">>
None == <<"None">>

happy == <<"h", "a", "p", "p", "y">>
HAPPY == <<"H", "A", "P", "P", "Y">>
happy_up == <<"H", "a", "p", "p", "y", "-", "u", "p">>
app == <<"a", "p", "p">>
h_ppy == <<"h", ".", "p", "p", "y">>
sad == <<"s", "a", "d">>
relaxing == <<"r", "e", "l", "a", "x", "i", "n", "g">>
angry == <<"a", "n", "g", "r", "y">>
neutral == <<"n", "e", "u", "t", "r", "a", "l">>
english == <<"e", "n", "g", "l", "i", "s", "h">>
hindi == <<"h", "i", "n", "d", "i">>
Hindi == <<"H", "i", "n", "d", "i">>
HINDI == <<"H", "I", "N", "D", "I">>
hindi_padded == <<" ", "h", "i", "n", "d", "i", " ">>
blank == <<" ", " ">>
empty == <<>>
A1 == <<"A", "1">>
a1 == <<"a", "1">>
A2 == <<"A", "2">>
T1 == <<"T", "1">>
T2 == <<"T", "2">>
T3 == <<"T", "3">>
T4 == <<"T", "4">>
T5 == <<"T", "5">>
u1 == <<"u", "1">>
u2 == <<"u", "2">>
Unknown == <<"U", "n", "k", "n", "o", "w", "n">>

-----------------------------------------------------------------------------
(* str.lower, str.strip, ==, str.contains *)

LowerChar(c) ==
    CASE c = "A" -> "a"
      [] c = "D" -> "d"
      [] c = "H" -> "h"
      [] c = "I" -> "i"
      [] c = "N" -> "n"
      [] c = "P" -> "p"
      [] c = "T" -> "t"
      [] c = "U" -> "u"
      [] c = "Y" -> "y"
      [] OTHER -> c

\* str.lower(); on a Series, .str.lower() leaves a missing cell missing
Lower(s) == IF s = NaN THEN NaN ELSE [i \in 1..Len(s) |-> LowerChar(s[i])]

RECURSIVE LStrip(_)
LStrip(s) == IF s # <<>> /\ Head(s) = " " THEN LStrip(Tail(s)) ELSE s

RECURSIVE RStrip(_)
RStrip(s) ==
    IF s # <<>> /\ s[Len(s)] = " " THEN RStrip(SubSeq(s, 1, Len(s) - 1)) ELSE s

\* str.strip()
Strip(s) == RStrip(LStrip(s))

\* Python truthiness of an optional str argument: None and "" are false
Truthy(s) == s # None /\ s # <<>>

\* s contains t as a contiguous run of characters
Substring(t, s) ==
    \E k \in 0..(Len(s) - Len(t)) : \A i \in 1..Len(t) : s[k + i] = t[i]

\* re.search(pat, s) for patterns of literal characters and ".", which stands
\* for any one character
RegexSearch(pat, s) ==
    \E k \in 0..(Len(s) - Len(pat)) :
        \A i \in 1..Len(pat) : pat[i] = "." \/ s[k + i] = pat[i]

\* Series.str.contains(pat, na=False): pat is a regular expression (regex=True
\* is the default), a missing cell gives False
StrContains(cell, pat) == cell # NaN /\ RegexSearch(pat, cell)

Min(a, b) == IF a <= b THEN a ELSE b

-----------------------------------------------------------------------------
(* The catalog file and the frame read from it *)

Columns == {"mood", "title", "artist", "language", "url"}

\* pd.DataFrame(): no columns, no rows
EmptyFrame == [cols |-> {}, rows |-> <<>>]

\* DataFrame.empty: some axis has length 0
DfEmpty(df) == df.cols = {} \/ df.rows = <<>>

\* the .str accessor exists on a column of strings; read_csv gives a column
\* whose cells are all missing the dtype float64, and .str raises on it
HasStr(df, col) == df.rows = <<>> \/ \E i \in 1..Len(df.rows) : df.rows[i][col] # NaN

\* row.get(col, default)
Get(df, row, col, default) == IF col \in df.cols THEN row[col] ELSE default

\* a column access that raises: df[col] on a missing column is a KeyError,
\* .str on a column without strings an AttributeError
ColErr(df, col) ==
    IF col \notin df.cols THEN "KeyError"
    ELSE IF ~HasStr(df, col) THEN "AttributeError"
    ELSE "none"

Return(df) == [err |-> "none", df |-> df]
Raise(e) == [err |-> e, df |-> EmptyFrame]

-----------------------------------------------------------------------------
(* app.py: load_songs, filter_songs *)

app_load_songs(src) ==
    IF ~src.exists THEN EmptyFrame
    ELSE IF ~src.readable THEN EmptyFrame
    ELSE [cols |-> src.cols, rows |-> src.rows]

\* a mutant of FieldMatch: the comparison without .str.lower() / .lower()
FieldMatchCaseSensitive(cell, wanted) == cell = Strip(wanted)

\* filtered[col].str.lower() == wanted.strip().lower(), for one cell
FieldMatch(cell, wanted) == Lower(cell) = Lower(Strip(wanted))

\* df[df['mood'].str.lower().str.contains(mood_lower, na=False)]
ByMood(rows, mood) ==
    LET mood_lower == Lower(mood)
        MoodTest(r) == StrContains(Lower(r.mood), mood_lower)
    IN  SelectSeq(rows, MoodTest)

\* a mutant of ByField: when no row has the wanted value, keep them all
ByFieldOrAll(rows, col, wanted) ==
    LET Test(r) == FieldMatch(r[col], wanted)
    IN  IF SelectSeq(rows, Test) = <<>> THEN rows ELSE SelectSeq(rows, Test)

\* filtered[filtered[col].str.lower() == wanted.strip().lower()]
ByField(rows, col, wanted) ==
    LET Test(r) == FieldMatch(r[col], wanted)
    IN  SelectSeq(rows, Test)

app_filter_songs(src, mood, language, artist) ==
    LET df == app_load_songs(src)
        useLang == Truthy(language) /\ Truthy(Strip(language))
        useArt == Truthy(artist) /\ Truthy(Strip(artist))
        f1 == ByMood(df.rows, mood)
        f2 == IF useLang THEN ByField(f1, "language", language) ELSE f1
        f3 == IF useArt THEN ByField(f2, "artist", artist) ELSE f2
    IN  IF DfEmpty(df) THEN Return(df)
        ELSE IF ColErr(df, "mood") # "none" THEN Raise(ColErr(df, "mood"))
        ELSE IF useLang /\ ColErr(df, "language") # "none"
            THEN Raise(ColErr(df, "language"))
        ELSE IF useArt /\ ColErr(df, "artist") # "none"
            THEN Raise(ColErr(df, "artist"))
        ELSE Return([cols |-> df.cols, rows |-> f3])

-----------------------------------------------------------------------------
(* recommender.py: load_songs, filter_songs *)

\* load_songs raises on a missing file, read_csv on an unreadable one
rec_load_songs(src) ==
    IF ~src.exists THEN Raise("FileNotFoundError")
    ELSE IF ~src.readable THEN Raise("ParserError")
    ELSE Return([cols |-> src.cols, rows |-> src.rows])

\* [x.strip().lower() for x in xs if x and x.strip()]
RECURSIVE CleanList(_)
CleanList(xs) ==
    IF xs = <<>> THEN <<>>
    ELSE IF Truthy(Head(xs)) /\ Truthy(Strip(Head(xs)))
        THEN <<Lower(Strip(Head(xs)))>> \o CleanList(Tail(xs))
    ELSE CleanList(Tail(xs))

Elems(xs) == {xs[i] : i \in 1..Len(xs)}

\* an optional list argument: None, or a list of optional strings
NoList == [given |-> FALSE, items |-> <<>>]
List(xs) == [given |-> TRUE, items |-> xs]
TruthyList(l) == l.given /\ l.items # <<>>

\* filtered[filtered[col].str.lower().isin(values)]
ByFieldIn(rows, col, values) ==
    LET Test(r) == Lower(r[col]) \in Elems(values)
    IN  SelectSeq(rows, Test)

\* langs / arts: the cleaned list, empty when the argument is None or empty
Cleaned(l) == IF TruthyList(l) THEN CleanList(l.items) ELSE <<>>

rec_filter_songs(src, mood, languages, artists) ==
    LET loaded == rec_load_songs(src)
        df == loaded.df
        langs == Cleaned(languages)
        arts == Cleaned(artists)
        f1 == ByMood(df.rows, mood)
        f2 == IF langs # <<>> THEN ByFieldIn(f1, "language", langs) ELSE f1
        f3 == IF arts # <<>> THEN ByFieldIn(f2, "artist", arts) ELSE f2
    IN  IF loaded.err # "none" THEN Return(EmptyFrame)
        ELSE IF ColErr(df, "mood") # "none" THEN Raise(ColErr(df, "mood"))
        ELSE IF langs # <<>> /\ ColErr(df, "language") # "none"
            THEN Raise(ColErr(df, "language"))
        ELSE IF arts # <<>> /\ ColErr(df, "artist") # "none"
            THEN Raise(ColErr(df, "artist"))
        ELSE Return([cols |-> df.cols, rows |-> f3])

-----------------------------------------------------------------------------
(* suggest_music: what a call does, as the sequence of its effects *)

Log(kind, arg) == [op |-> "log", kind |-> kind, arg |-> arg]
Speak(kind, arg) == [op |-> "speak", kind |-> kind, arg |-> arg]
StdOut(kind, arg) == [op |-> "print", kind |-> kind, arg |-> arg]
Open(url) == [op |-> "open", kind |-> "url", arg |-> url]

\* url and isinstance(url, str) and url.strip()
UrlUsable(url) == url # None /\ url # NaN /\ url # <<>> /\ Strip(url) # <<>>

\* the dict built from a sampled row
Suggestion(df, row, mood) ==
    [title |-> Get(df, row, "title", Unknown),
     artist |-> Get(df, row, "artist", Unknown),
     language |-> Get(df, row, "language", Unknown),
     mood |-> Get(df, row, "mood", mood),
     url |-> Get(df, row, "url", None)]

\* webbrowser.open inside try/except: a failure is logged
OpenUrl(url, fails) ==
    IF fails THEN <<Open(url), Log("OpenFailed", url)>> ELSE <<Open(url)>>

\* sampled: the positions in filtered of the rows that sample() drew, in order
NoCall == [api |-> "none", err |-> "none", filtered |-> <<>>, sampled |-> <<>>,
           result |-> <<>>, trace |-> <<>>]

\* app.py suggest_music: the outcomes of one call; filtered.sample(n=1) picks
\* any row, and the browser may fail to open
app_announce(df, row, mood, fails) ==
    LET s == Suggestion(df, row, mood)
    IN  <<Log("Suggested", s.title)>> \o
        (IF UrlUsable(s.url) THEN OpenUrl(s.url, fails)
         ELSE <<Speak("LinkMissing", s.title)>>)

\* a mutant of app_no_match: the log entry without the spoken message
app_no_match_silent(mood) == <<Log("NoSongs", mood)>>

\* the branch taken when filtered.empty: log_event(msg), speak(...), return []
app_no_match(mood) == <<Log("NoSongs", mood), Speak("Sorry", <<>>)>>

app_suggest_music(src, mood, language, artist) ==
    LET f == app_filter_songs(src, mood, language, artist)
        filtered == f.df
    IN  IF f.err # "none"
            THEN {[api |-> "app", err |-> f.err, filtered |-> <<>>,
                   sampled |-> <<>>, result |-> <<>>, trace |-> <<>>]}
        ELSE IF DfEmpty(filtered)
            THEN {[api |-> "app", err |-> "none", filtered |-> filtered.rows,
                   sampled |-> <<>>, result |-> <<>>,
                   trace |-> app_no_match(mood)]}
        ELSE {[api |-> "app", err |-> "none", filtered |-> filtered.rows,
               sampled |-> <<i>>,
               result |-> <<Suggestion(filtered, filtered.rows[i], mood)>>,
               trace |-> app_announce(filtered, filtered.rows[i], mood, fails)] :
                   i \in 1..Len(filtered.rows), fails \in BOOLEAN}

\* a mutant of Samples: sample(n, replace=True), a row may be drawn twice
SamplesWithReplacement(rows, n) == [1..n -> 1..Len(rows)]

\* DataFrame.sample(n): n distinct rows, in any order
Samples(rows, n) ==
    {s \in [1..n -> 1..Len(rows)] : \A i, j \in 1..n : i # j => s[i] # s[j]}

\* recommender.py suggest_music: the loop over the sampled rows
rec_announce(df, row, mood, fails) ==
    LET s == Suggestion(df, row, mood)
    IN  <<Log("Suggested", s.title)>> \o
        (IF UrlUsable(s.url) THEN OpenUrl(s.url, fails) ELSE <<>>)

RECURSIVE rec_loop(_, _, _, _, _)
rec_loop(df, sampled, k, mood, fails) ==
    IF k > Len(sampled) THEN <<>>
    ELSE rec_announce(df, df.rows[sampled[k]], mood, fails[k])
             \o rec_loop(df, sampled, k + 1, mood, fails)

\* the branch taken when filtered.empty: print(...), log_event(...), return []
rec_no_match(mood) == <<StdOut("NoSongs", mood), Log("NoSongs", mood)>>

rec_suggest_music(src, mood, languages, artists, num) ==
    LET f == rec_filter_songs(src, mood, languages, artists)
        filtered == f.df
        sample_n == Min(num, Len(filtered.rows))
    IN  IF f.err # "none"
            THEN {[api |-> "rec", err |-> f.err, filtered |-> <<>>,
                   sampled |-> <<>>, result |-> <<>>, trace |-> <<>>]}
        ELSE IF DfEmpty(filtered)
            THEN {[api |-> "rec", err |-> "none", filtered |-> filtered.rows,
                   sampled |-> <<>>, result |-> <<>>,
                   trace |-> rec_no_match(mood)]}
        ELSE {[api |-> "rec", err |-> "none", filtered |-> filtered.rows,
               sampled |-> sampled,
               result |-> [k \in 1..sample_n |->
                              Suggestion(filtered, filtered.rows[sampled[k]], mood)],
               trace |-> rec_loop(filtered, sampled, 1, mood, fails)] :
                   sampled \in Samples(filtered.rows, sample_n),
                   fails \in [1..sample_n -> BOOLEAN]}

-----------------------------------------------------------------------------
(* Catalog files and calls the selector is run on *)

Song(mood, title, artist, language, url) ==
    [mood |-> mood, title |-> title, artist |-> artist, language |-> language,
     url |-> url]

R1 == Song(happy, T1, A1, english, u1)
R2 == Song(happy, T2, A2, hindi, u2)
R3 == Song(happy_up, T3, A1, Hindi, NaN)
R4 == Song(sad, T4, A2, english, blank)
R5 == Song(NaN, T5, NaN, NaN, u1)

SongRows == {R1, R2, R3, R4, R5}

Catalogs == UNION {[1..k -> SongRows] : k \in 0..MaxCatalog}

ColumnSets ==
    {Columns, Columns \ {"mood"}, Columns \ {"language"}, Columns \ {"url"}}

File(cols, rows) == [exists |-> TRUE, readable |-> TRUE, cols |-> cols, rows |-> rows]
MissingFile == [exists |-> FALSE, readable |-> FALSE, cols |-> {}, rows |-> <<>>]
UnreadableFile == [exists |-> TRUE, readable |-> FALSE, cols |-> {}, rows |-> <<>>]

Sources ==
    {MissingFile, UnreadableFile}
        \cup {File(c, r) : c \in ColumnSets, r \in Catalogs}

QueryMoods == {happy, HAPPY, app, h_ppy, angry, empty}

Query(api, src, mood, language, artist, languages, artists, num) ==
    [api |-> api, src |-> src, mood |-> mood, language |-> language,
     artist |-> artist, languages |-> languages, artists |-> artists, num |-> num]

\* calls of app.py's suggest_music(mood, language, artist)
AppQueries ==
    {Query("app", src, m, l, a, NoList, NoList, 1) :
        src \in Sources, m \in QueryMoods,
        l \in {None, empty, blank, hindi_padded, HINDI, english},
        a \in {None, empty, a1}}

\* calls of recommender.py's suggest_music(mood, languages, artists, num)
RecQueries ==
    {Query("rec", src, m, None, None, l, a, n) :
        src \in Sources, m \in QueryMoods,
        l \in {NoList, List(<<>>), List(<<hindi_padded>>), List(<<HINDI, english>>),
               List(<<empty, None>>)},
        a \in {NoList, List(<<a1>>)},
        n \in 1..MaxNum}

IdleQuery == Query("none", MissingFile, empty, None, None, NoList, NoList, 1)

-----------------------------------------------------------------------------
(* app.py: the mood cooldown gate of process_camera_frame *)

MOOD_COOLDOWN_SECONDS == 30
ANALYSIS_THROTTLE_SECONDS == 5

\* DeepFace's dominant_emotion, lower-cased (three of its seven labels)
DetectMoods == {happy, sad, neutral}

\* the catalog files the application is run with
AppFiles ==
    {File(Columns, <<R1, R2, R3, R4>>), UnreadableFile,
     File(Columns \ {"mood"}, <<R1>>)}

\* rows of the users table: (language, artist), NULL read as None
UserRows ==
    {[language |-> english, artist |-> empty], [language |-> None, artist |-> None],
     [language |-> hindi, artist |-> A1]}

\* get_preferences: (row[0] or "english", row[1] or "")
get_preferences(row) ==
    [language |-> IF Truthy(row.language) THEN row.language ELSE english,
     artist |-> IF Truthy(row.artist) THEN row.artist ELSE empty]

\* if current_time - last_suggest_time < 5: return
Throttled(current_time, lst) == current_time - lst < ANALYSIS_THROTTLE_SECONDS

\* mutants of Eligible: the window test reversed, "and" for "or", ">" for ">="
EligibleReversed(mood, lm, current_time, lst) ==
    mood # lm \/ (current_time - lst) < MOOD_COOLDOWN_SECONDS

EligibleAnd(mood, lm, current_time, lst) ==
    mood # lm /\ (current_time - lst) >= MOOD_COOLDOWN_SECONDS

EligibleStrict(mood, lm, current_time, lst) ==
    mood # lm \/ (current_time - lst) > MOOD_COOLDOWN_SECONDS

\* if mood != last_mood or (current_time - last_suggest_time) >= MOOD_COOLDOWN_SECONDS
Eligible(mood, lm, current_time, lst) ==
    mood # lm \/ (current_time - lst) >= MOOD_COOLDOWN_SECONDS

\* mutants of AfterFrame: the assignments without the "global" statement (they
\* bind locals), and the assignments moved out of the if
AfterFrameLocal(eligible, mood, current_time, lm, lst) == <<lm, lst>>

AfterFrameAlways(eligible, mood, current_time, lm, lst) == <<mood, current_time>>

\* the globals after a frame whose analysis ran and whose selector call, if
\* any, returned: assigned inside the if, left alone otherwise
AfterFrame(eligible, mood, current_time, lm, lst) ==
    IF eligible THEN <<mood, current_time>> ELSE <<lm, lst>>

NoFrame ==
    [kind |-> "none", mood |-> None, pre_mood |-> None, elapsed |-> 0,
     invoked |-> FALSE, found |-> FALSE, trace |-> <<>>]

\* what a run of process_camera_frame saw and did: the mood of the frame, the
\* globals it read, whether it called suggest_music and got a song, and its
\* log entries, speech requests and opened URLs in order
Frame(kind, mood, invoked, found, trace) ==
    [kind |-> kind, mood |-> mood, pre_mood |-> last_mood,
     elapsed |-> now - last_suggest_time, invoked |-> invoked, found |-> found,
     trace |-> trace]

\* process_camera_frame(frame, username); the frame shows mood m, and DeepFace
\* either reports it or raises, which is read as "neutral".  The clock is in
\* whole seconds.  An exception of suggest_music leaves the function before
\* the assignments and before _update reschedules itself with root.after.
process_camera_frame(m, analysed) ==
    LET current_time == now
        mood == IF analysed THEN m ELSE neutral
        p == get_preferences(prefs)
        eligible == Eligible(mood, last_mood, current_time, last_suggest_time)
        after == AfterFrame(eligible, mood, current_time, last_mood, last_suggest_time)
        detected == <<Log("Detected", mood)>>
        comment == <<Speak("Comment", mood)>>
    IN  /\ cam = "running"
        /\ IF Throttled(current_time, last_suggest_time)
             THEN /\ ev' = Frame("throttled", mood, FALSE, FALSE, <<>>)
                  /\ UNCHANGED <<last_mood, last_suggest_time, cam>>
           ELSE IF ~eligible
             THEN /\ ev' = Frame("suppressed", mood, FALSE, FALSE, detected)
                  /\ last_mood' = after[1]
                  /\ last_suggest_time' = after[2]
                  /\ UNCHANGED cam
           ELSE \E o \in app_suggest_music(songs, mood, p.language, p.artist) :
                  IF o.err # "none"
                    THEN /\ ev' = Frame("raised", mood, TRUE, FALSE,
                                        detected \o comment)
                         /\ cam' = "crashed"
                         /\ UNCHANGED <<last_mood, last_suggest_time>>
                    ELSE /\ ev' = Frame("eligible", mood, TRUE, o.result # <<>>,
                                        detected \o comment \o o.trace)
                         /\ last_mood' = after[1]
                         /\ last_suggest_time' = after[2]
                         /\ UNCHANGED cam
        /\ UNCHANGED <<q, out, now, songs, prefs, camVars, ttsVars>>

\* no _update is running or waiting
IdleThread == [pc |-> "idle", mood |-> None, time |-> 0]
CamIdle == th = [camera |-> IdleThread, tk |-> IdleThread] /\ after_q = 0

\* the speech queue and its worker as the module leaves them on import
NoItem == [id |-> 0, by |-> "none", lang |-> "en"]
IdleWorker == [pc |-> "top", item |-> NoItem, failed |-> FALSE]
TtsIdle ==
    /\ speak_queue = <<>>
    /\ unfinished_tasks = 0
    /\ stop_event = FALSE
    /\ worker = IdleWorker
    /\ puts = <<>>
    /\ handled = <<>>
    /\ done = <<>>

CameraFrame == \E m \in DetectMoods, analysed \in BOOLEAN : process_camera_frame(m, analysed)

\* a second of the clock passes
Tick ==
    /\ now < StartTime + Horizon
    /\ now' = now + 1
    /\ ev' = NoFrame
    /\ UNCHANGED <<q, out, last_mood, last_suggest_time, songs, prefs, cam>>
    /\ UNCHANGED <<camVars, ttsVars>>

Init ==
    /\ q = IdleQuery
    /\ out = NoCall
    /\ now = StartTime
    /\ last_mood = None
    /\ last_suggest_time = 0
    /\ songs \in AppFiles
    /\ prefs \in UserRows
    /\ cam = "running"
    /\ ev = NoFrame
    /\ CamIdle
    /\ TtsIdle

\* a mutant of AfterManual: a manual recommendation commits to the gate
AfterManualCommit(mood, current_time, lm, lst) == <<mood, current_time>>

\* last_mood and last_suggest_time after trigger_scan or
\* voice_command_handler: neither names the globals
AfterManual(mood, current_time, lm, lst) == <<lm, lst>>

\* a manual recommendation: suggest_music is called from a Tk callback; an
\* exception is reported by Tk and the event loop goes on
Manual(kind, mood, language, artist, before) ==
    LET after == AfterManual(mood, now, last_mood, last_suggest_time)
    IN  /\ \E o \in app_suggest_music(songs, mood, language, artist) :
               ev' = IF o.err # "none"
                       THEN Frame(kind \o "_raised", mood, TRUE, FALSE, before)
                       ELSE Frame(kind, mood, TRUE, o.result # <<>>,
                                  before \o o.trace)
        /\ last_mood' = after[1]
        /\ last_suggest_time' = after[2]

\* trigger_scan(username): one frame from a camera opened for the scan
trigger_scan(opened, ret, m, analysed) ==
    LET mood == IF analysed THEN m ELSE neutral
        p == get_preferences(prefs)
    IN  /\ IF ~opened \/ ~ret
             THEN /\ ev' = Frame("scan_none", None, FALSE, FALSE, <<>>)
                  /\ UNCHANGED <<last_mood, last_suggest_time>>
             ELSE Manual("scan", mood, p.language, p.artist,
                         <<Log("Scanned", mood), Speak("Comment", mood)>>)
        /\ UNCHANGED <<q, out, now, songs, prefs, cam, camVars, ttsVars>>

\* the text of the Language and Artist entries, set from the preferences and
\* editable
UiTexts == {[language |-> english, artist |-> empty], [language |-> hindi, artist |-> A1]}

\* a recognised command, as the set of the keywords it contains
Commands == {{}, {"gym"}, {"relax"}, {"happy"}, {"sad"}, {"sad", "gym"}}

\* the if / elif chain over the command's keywords
VoiceMood(cmd) ==
    IF "gym" \in cmd THEN happy
    ELSE IF "relax" \in cmd THEN relaxing
    ELSE IF "happy" \in cmd THEN happy
    ELSE IF "sad" \in cmd THEN sad
    ELSE None

\* voice_command_handler(); current_user is the logged-in user's name
voice_command_handler(cmd, ui) ==
    LET mood == VoiceMood(cmd)
        heard == <<Log("Voice command", mood)>>
        here == IF "gym" \in cmd \/ "relax" \in cmd
                  THEN <<Speak("Here are some", mood)>> ELSE <<>>
    IN  /\ IF mood = None
             THEN /\ ev' = Frame("voice_unknown", None, FALSE, FALSE,
                                 heard \o <<Speak("Sorry", None)>>)
                  /\ UNCHANGED <<last_mood, last_suggest_time>>
             ELSE Manual("voice", mood, ui.language, ui.artist, heard \o here)
        /\ UNCHANGED <<q, out, now, songs, prefs, cam, camVars, ttsVars>>

\* what a scan can meet: no camera, no frame, a frame whose mood DeepFace
\* reports, a frame on which it raises
ScanInputs ==
    {[opened |-> FALSE, ret |-> FALSE, m |-> neutral, analysed |-> FALSE],
     [opened |-> TRUE, ret |-> FALSE, m |-> neutral, analysed |-> FALSE],
     [opened |-> TRUE, ret |-> TRUE, m |-> happy, analysed |-> FALSE]}
    \cup {[opened |-> TRUE, ret |-> TRUE, m |-> m, analysed |-> TRUE] : m \in DetectMoods}

TriggerScan == \E i \in ScanInputs : trigger_scan(i.opened, i.ret, i.m, i.analysed)

VoiceCommand == \E cmd \in Commands, ui \in UiTexts : voice_command_handler(cmd, ui)

Next == CameraFrame \/ Tick

Spec == Init /\ [][Next]_vars

-----------------------------------------------------------------------------
(* The selector as a function: one call of suggest_music on drawn arguments *)

AppSuggest ==
    /\ q.api = "app"
    /\ out.api = "none"
    /\ out' \in app_suggest_music(q.src, q.mood, q.language, q.artist)
    /\ UNCHANGED <<q, now, last_mood, last_suggest_time, songs, prefs, cam, ev>>
    /\ UNCHANGED <<camVars, ttsVars>>

RecSuggest ==
    /\ q.api = "rec"
    /\ out.api = "none"
    /\ out' \in rec_suggest_music(q.src, q.mood, q.languages, q.artists, q.num)
    /\ UNCHANGED <<q, now, last_mood, last_suggest_time, songs, prefs, cam, ev>>
    /\ UNCHANGED <<camVars, ttsVars>>

SelInit ==
    /\ q \in AppQueries \cup RecQueries
    /\ out = NoCall
    /\ now = StartTime
    /\ last_mood = None
    /\ last_suggest_time = 0
    /\ songs = MissingFile
    /\ prefs = [language |-> None, artist |-> None]
    /\ cam = "running"
    /\ ev = NoFrame
    /\ CamIdle
    /\ TtsIdle

SelNext == AppSuggest \/ RecSuggest

SelectorSpec == SelInit /\ [][SelNext]_vars

-----------------------------------------------------------------------------
(* The cooldown gate: claims C2 - C6, under Spec *)

\* the latest step handled a camera frame
FrameStep == ev.kind \in {"throttled", "suppressed", "eligible", "raised"}

\* the latest step handled a frame whose emotion analysis ran, so that a mood
\* was detected
Detection == ev.kind \in {"suppressed", "eligible", "raised"}

\* the globals are what they were before the frame
GateUnchanged == last_mood = ev.pre_mood /\ last_suggest_time = now - ev.elapsed

\* C2: a detection of the mood last suggested for, fewer than
\* MOOD_COOLDOWN_SECONDS after last_suggest_time, does not call suggest_music.
C2_CooldownSuppresses ==
    (Detection /\ ev.mood = ev.pre_mood /\ ev.elapsed < MOOD_COOLDOWN_SECONDS)
        => ~ev.invoked

C2_Witness ==
    /\ Detection
    /\ ev.mood = ev.pre_mood
    /\ ev.elapsed >= ANALYSIS_THROTTLE_SECONDS
    /\ ev.elapsed < MOOD_COOLDOWN_SECONDS
    /\ ~ev.invoked

\* C3 as stated: every frame handed to process_camera_frame whose mood differs
\* from last_mood calls suggest_music, however little time has passed.
C3_MoodChangeAlwaysTriggers ==
    (FrameStep /\ ev.mood # ev.pre_mood) => ev.invoked

\* C3 amended: a frame handled at least ANALYSIS_THROTTLE_SECONDS after
\* last_suggest_time, whose mood differs from last_mood, calls suggest_music,
\* whether or not the cooldown window has passed.
C3_MoodChangeTriggersPastThrottle ==
    (FrameStep /\ ev.elapsed >= ANALYSIS_THROTTLE_SECONDS /\ ev.mood # ev.pre_mood)
        => ev.invoked

C3_Witness ==
    /\ FrameStep
    /\ ev.pre_mood # None
    /\ ev.mood # ev.pre_mood
    /\ ev.elapsed >= ANALYSIS_THROTTLE_SECONDS
    /\ ev.elapsed < MOOD_COOLDOWN_SECONDS
    /\ ev.invoked

\* C4 as stated: last_mood and last_suggest_time are set to the current mood
\* and time only when suggest_music returned a song; an eligible detection
\* with no matching song leaves them as they were.
C4_CommitOnlyWhenFound ==
    /\ (ev.kind = "eligible" /\ ev.found)
           => (last_mood = ev.mood /\ last_suggest_time = now)
    /\ (FrameStep /\ ~ev.found) => GateUnchanged

\* C4 amended: last_mood and last_suggest_time are set to the current mood and
\* time after every eligible detection whose suggest_music call returns, with
\* a song or without; a throttled or suppressed frame, and one whose
\* suggest_music call raises, leaves them as they were.
C4_CommitWhenSelectorReturns ==
    /\ ev.kind = "eligible" => (last_mood = ev.mood /\ last_suggest_time = now)
    /\ ev.kind \in {"throttled", "suppressed", "raised"} => GateUnchanged

C4_Witness ==
    /\ ev.kind = "eligible"
    /\ ~ev.found
    /\ ev.mood # ev.pre_mood
    /\ last_mood = ev.mood
    /\ last_suggest_time = now

\* C5: for a detection, suggest_music is called exactly when the mood differs
\* from last_mood or at least MOOD_COOLDOWN_SECONDS have passed since
\* last_suggest_time; the same mood becomes eligible again at 30 seconds.
C5_EligibleExactlyWhen ==
    Detection =>
        (ev.invoked <=>
            (ev.mood # ev.pre_mood \/ ev.elapsed >= MOOD_COOLDOWN_SECONDS))

C5_Witness ==
    /\ Detection
    /\ ev.mood = ev.pre_mood
    /\ ev.elapsed = MOOD_COOLDOWN_SECONDS
    /\ ev.invoked

\* C6: a suppressed detection makes no selection and leaves last_mood and
\* last_suggest_time as they were before process_camera_frame.
C6_SuppressedChangesNothing ==
    ev.kind = "suppressed" => (~ev.invoked /\ GateUnchanged)

C6_Witness ==
    /\ ev.kind = "suppressed"
    /\ ev.pre_mood = happy
    /\ last_mood = happy
    /\ last_suggest_time = StartTime
    /\ now > StartTime

-----------------------------------------------------------------------------
(* The selector and the announcer: claims C1, C7 - C10, under SelectorSpec *)

\* the call has been made / has returned
Called == out.api # "none"
Returned == Called /\ out.err = "none"

\* the rows of the catalog file, when it can be read
FileRows == IF q.src.exists /\ q.src.readable THEN q.src.rows ELSE <<>>

\* the mood cell holds the query mood as a substring, case-insensitively
MoodHolds(cell, mood) == cell # NaN /\ Substring(Lower(mood), Lower(cell))

\* cell equals the trimmed wanted value, case-insensitively
SameText(cell, wanted) == cell # NaN /\ Lower(cell) = Lower(Strip(wanted))

\* an optional string is given and is not blank
Supplied(x) == x # None /\ Strip(x) # <<>>

\* the given, non-blank entries of an optional list
SuppliedIn(l) == IF l.given THEN {x \in Elems(l.items) : Supplied(x)} ELSE {}

\* C1: filter_songs / suggest_music return only rows whose mood field holds
\* the query mood as a case-insensitive substring, and suggest_music returns
\* the empty result when the catalog has no such row.
C1_OnlyMoodSubstringRows ==
    Returned =>
        /\ \A i \in 1..Len(out.filtered) : MoodHolds(out.filtered[i].mood, q.mood)
        /\ \A i \in 1..Len(out.result) : MoodHolds(out.result[i].mood, q.mood)
        /\ (~\E i \in 1..Len(FileRows) : MoodHolds(FileRows[i].mood, q.mood))
               => out.result = <<>>

\* the language (artist) restriction the call asks for holds of row r
LanguageOk(r) ==
    CASE q.api = "app" -> Supplied(q.language) => SameText(r.language, q.language)
      [] q.api = "rec" ->
            SuppliedIn(q.languages) # {}
                => \E x \in SuppliedIn(q.languages) : SameText(r.language, x)

ArtistOk(r) ==
    CASE q.api = "app" -> Supplied(q.artist) => SameText(r.artist, q.artist)
      [] q.api = "rec" ->
            SuppliedIn(q.artists) # {}
                => \E x \in SuppliedIn(q.artists) : SameText(r.artist, x)

\* a row of a well-formed catalog that the call should match
Matching(r) == MoodHolds(r.mood, q.mood) /\ LanguageOk(r) /\ ArtistOk(r)

\* C7: with a language (artist) filter that is not blank, every returned row
\* has that language (artist), compared trimmed and case-insensitively, and a
\* matching row is returned whenever the catalog has one.
C7_ExactLanguageArtist ==
    Called =>
        /\ Returned =>
              /\ \A i \in 1..Len(out.filtered) :
                     LanguageOk(out.filtered[i]) /\ ArtistOk(out.filtered[i])
              /\ \A i \in 1..Len(out.result) :
                     LanguageOk(out.result[i]) /\ ArtistOk(out.result[i])
        /\ ({"mood", "language", "artist"} \subseteq q.src.cols
                /\ \E i \in 1..Len(FileRows) : Matching(FileRows[i]))
              => (Returned /\ out.result # <<>>)

\* the scenario of the claim: two happy rows, english and hindi, asked for in
\* hindi, give exactly the hindi row
C7_Witness ==
    /\ Returned
    /\ q.src = File(Columns, <<R1, R2>>)
    /\ q.mood = happy
    /\ q.api = "app" => q.language = HINDI
    /\ q.api = "rec" => q.languages = List(<<hindi_padded>>)
    /\ out.filtered = <<R2>>
    /\ Len(out.result) = 1
    /\ out.result[1].title = T2

\* how often the call did something for the song s
Count(Test(_)) == Cardinality({i \in 1..Len(out.trace) : Test(out.trace[i])})

Opens(s) == LET T(e) == e.op = "open" /\ e.arg = s.url IN Count(T)

Fallbacks(s) ==
    LET T(e) == e.op \in {"speak", "print"} /\ e.kind = "LinkMissing" /\ e.arg = s.title
    IN  Count(T)

\* the URL is a string with something in it
UrlPresent(url) == url # None /\ url # NaN /\ Strip(url) # <<>>

\* C8: for each recommended song exactly one of two things is done: its URL
\* is opened when the URL is a non-empty string, or a fallback message is
\* emitted when it is absent or empty; in app.py and in recommender.py.
C8_ExactlyOneAnnouncement ==
    Returned =>
        \A i \in 1..Len(out.result) :
            LET s == out.result[i]
            IN  /\ Opens(s) + Fallbacks(s) >= 1
                /\ UrlPresent(s.url) => Fallbacks(s) = 0
                /\ ~UrlPresent(s.url) => Opens(s) = 0

\* the catalog file is missing, unreadable, or without its mood column
Malformed == ~q.src.exists \/ ~q.src.readable \/ "mood" \notin q.src.cols

\* C9: a missing or malformed catalog never makes the selector raise; the
\* call gives the ordinary empty result, also when the file can be read but
\* lacks the expected columns.
C9_BadCatalogGivesNoMatch ==
    (Called /\ Malformed) => (out.err = "none" /\ out.result = <<>>)

\* the entries of the trace that satisfy Test number exactly n
NoSongsLogged == LET T(e) == e.op = "log" /\ e.kind = "NoSongs" IN Count(T)
NothingFoundSaid ==
    LET T(e) == e.op \in {"speak", "print"} /\ e.kind \in {"Sorry", "NoSongs"}
    IN  Count(T)
UrlsOpened == LET T(e) == e.op = "open" IN Count(T)

\* C10: when no row is left after filtering, suggest_music returns the empty
\* result, writes one "no songs found" log entry, emits the "nothing found"
\* message once, and opens no URL.
C10_NoMatchFallbackOnce ==
    (Returned /\ out.filtered = <<>>) =>
        /\ out.result = <<>>
        /\ NoSongsLogged = 1
        /\ NothingFoundSaid = 1
        /\ UrlsOpened = 0

\* the catalog has rows, none of them for the mood asked for
C10_Witness ==
    /\ Returned
    /\ q.src.cols = Columns
    /\ q.src.rows # <<>>
    /\ q.mood = angry
    /\ out.filtered = <<>>
    /\ out.result = <<>>
    /\ NothingFoundSaid = 1

-----------------------------------------------------------------------------
(* Sampling: claim C11, under SelectorSpec *)

\* C11: recommender.py's suggest_music with num variants requested returns
\* pairwise-distinct rows of the candidate set, exactly min(num, candidates)
\* of them: no row twice, and never more rows than there are candidates.
C11_SampleUniqueAndBounded ==
    (Returned /\ q.api = "rec") =>
        /\ Len(out.result) = Min(q.num, Len(out.filtered))
        /\ Len(out.result) <= Len(out.filtered)
        /\ Len(out.sampled) = Len(out.result)
        /\ \A i \in 1..Len(out.sampled) : out.sampled[i] \in 1..Len(out.filtered)
        /\ \A i, j \in 1..Len(out.sampled) : i # j => out.sampled[i] # out.sampled[j]
        /\ \A i \in 1..Len(out.result) :
               out.result[i].title = out.filtered[out.sampled[i]].title

\* more rows are asked for than there are candidates, and two are drawn from
\* several candidates
C11_Witness ==
    /\ Returned
    /\ q.api = "rec"
    /\ q.num = 2
    /\ Len(out.filtered) = 2
    /\ Len(out.result) = 2
    /\ out.sampled = <<2, 1>>

C11_WitnessFewerCandidates ==
    /\ Returned
    /\ q.api = "rec"
    /\ q.num = 2
    /\ Len(out.filtered) = 1
    /\ Len(out.result) = 1

-----------------------------------------------------------------------------
(* Order of the restrictions: claim C12, under SelectorSpec *)

\* one restriction of the call applied to rows: by language, by artist, by mood
OnLanguage(rows) ==
    CASE q.api = "app" ->
            IF Supplied(q.language) THEN ByField(rows, "language", q.language)
            ELSE rows
      [] q.api = "rec" ->
            IF Cleaned(q.languages) # <<>>
                THEN ByFieldIn(rows, "language", Cleaned(q.languages))
            ELSE rows

OnArtist(rows) ==
    CASE q.api = "app" ->
            IF Supplied(q.artist) THEN ByField(rows, "artist", q.artist) ELSE rows
      [] q.api = "rec" ->
            IF Cleaned(q.artists) # <<>>
                THEN ByFieldIn(rows, "artist", Cleaned(q.artists))
            ELSE rows

OnMood(rows) == ByMood(rows, q.mood)

\* C12: the candidates do not depend on the order of the restrictions: the
\* code's order (mood, language, artist) gives the rows that language first,
\* or artist first, or mood last give.
C12_FilterOrderIndependent ==
    Returned =>
        /\ out.filtered = OnArtist(OnMood(OnLanguage(FileRows)))
        /\ out.filtered = OnLanguage(OnMood(OnArtist(FileRows)))
        /\ out.filtered = OnMood(OnArtist(OnLanguage(FileRows)))

\* both restrictions remove a row: mood alone keeps one row, language alone
\* keeps the other, together they keep none
C12_Witness ==
    /\ Returned
    /\ Len(FileRows) = 2
    /\ Len(OnMood(FileRows)) = 1
    /\ Len(OnLanguage(FileRows)) = 1
    /\ OnMood(FileRows) # OnLanguage(FileRows)
    /\ out.filtered = <<>>
    /\ OnMood(OnLanguage(FileRows)) = <<>>

-----------------------------------------------------------------------------
(* camera_loop as wired: initialize_main_ui starts it on a background       *)
(* thread, whose one call of _update ends with root.after(30, _update);     *)
(* every later _update is a callback of the Tk event loop.  Each statement  *)
(* of _update and of process_camera_frame that reads or writes shared state *)
(* is a step of its own, so that two runs could interleave if both ran.     *)

CamThreads == {"camera", "tk"}

\* a mutant of Scheduled: root.after called on entry to _update
ScheduledAtEntry(pc) == pc = "read"

\* the position in _update at which root.after(30, _update) is called: its
\* last statement, after process_camera_frame has returned
Scheduled(pc) == pc = "resched"

\* the callbacks waiting after a step taken from position pc
AfterQ(pc, ok) == IF Scheduled(pc) /\ ok THEN after_q + 1 ELSE after_q

\* where a thread is once its _update is over: the camera thread ends, the
\* Tk thread is back in its event loop
Rest(t) == IF t = "camera" THEN "done" ELSE "idle"

Goto(t, pc) == th' = [th EXCEPT ![t].pc = pc]

\* threading.Thread(target=camera_loop): cap.isOpened() decides whether
\* _update is called at all
CameraLoopStart ==
    /\ th.camera.pc = "idle"
    /\ \E opened \in BOOLEAN : Goto("camera", IF opened THEN "read" ELSE "done")
    /\ UNCHANGED <<q, out, now, last_mood, last_suggest_time, songs, prefs, cam, ev,
                   after_q, ttsVars>>

\* the event loop runs a waiting callback
TkRunCallback ==
    /\ th.tk.pc = "idle"
    /\ after_q > 0
    /\ after_q' = after_q - 1
    /\ Goto("tk", "read")
    /\ UNCHANGED <<q, out, now, last_mood, last_suggest_time, songs, prefs, cam, ev,
                   ttsVars>>

\* ret, frame = cap.read(); if ret ... process_camera_frame(frame, username)
ReadFrame(t) ==
    /\ th[t].pc = "read"
    /\ \E ret \in BOOLEAN : Goto(t, IF ret THEN "enter" ELSE "resched")
    /\ after_q' = AfterQ("read", TRUE)
    /\ UNCHANGED <<q, out, now, last_mood, last_suggest_time, songs, prefs, cam, ev,
                   ttsVars>>

\* current_time = time.time(); the throttle test; DeepFace.analyze
EnterFrame(t) ==
    /\ th[t].pc = "enter"
    /\ IF Throttled(now, last_suggest_time)
         THEN Goto(t, "resched")
         ELSE \E m \in DetectMoods :
                  th' = [th EXCEPT ![t] = [pc |-> "gate", mood |-> m, time |-> now]]
    /\ UNCHANGED <<q, out, now, last_mood, last_suggest_time, songs, prefs, cam, ev,
                   after_q, ttsVars>>

\* the cooldown condition, read from the globals
GateFrame(t) ==
    /\ th[t].pc = "gate"
    /\ Goto(t, IF Eligible(th[t].mood, last_mood, th[t].time, last_suggest_time)
                 THEN "suggest" ELSE "resched")
    /\ UNCHANGED <<q, out, now, last_mood, last_suggest_time, songs, prefs, cam, ev,
                   after_q, ttsVars>>

\* speak, get_preferences, suggest_music, display_recommendation; an exception
\* ends this _update without a new callback
SuggestFrame(t) ==
    /\ th[t].pc = "suggest"
    /\ LET p == get_preferences(prefs)
       IN  \E o \in app_suggest_music(songs, th[t].mood, p.language, p.artist) :
               Goto(t, IF o.err # "none" THEN Rest(t) ELSE "commit")
    /\ UNCHANGED <<q, out, now, last_mood, last_suggest_time, songs, prefs, cam, ev,
                   after_q, ttsVars>>

\* last_mood = mood; last_suggest_time = current_time
CommitFrame(t) ==
    /\ th[t].pc = "commit"
    /\ LET after == AfterFrame(TRUE, th[t].mood, th[t].time, last_mood,
                               last_suggest_time)
       IN  last_mood' = after[1] /\ last_suggest_time' = after[2]
    /\ Goto(t, "resched")
    /\ UNCHANGED <<q, out, now, songs, prefs, cam, ev, after_q, ttsVars>>

\* root.after(30, _update); from the camera thread the call needs the main
\* thread to be in its main loop, and raises RuntimeError otherwise
Reschedule(t) ==
    /\ th[t].pc = "resched"
    /\ \E ok \in BOOLEAN :
           /\ t = "tk" => ok
           /\ after_q' = AfterQ("resched", ok)
    /\ Goto(t, Rest(t))
    /\ UNCHANGED <<q, out, now, last_mood, last_suggest_time, songs, prefs, cam, ev,
                   ttsVars>>

CamTick ==
    /\ now < StartTime + CamHorizon
    /\ now' = now + 1
    /\ UNCHANGED <<q, out, last_mood, last_suggest_time, songs, prefs, cam, ev,
                   camVars, ttsVars>>

CamInit ==
    /\ q = IdleQuery
    /\ out = NoCall
    /\ now = StartTime
    /\ last_mood = None
    /\ last_suggest_time = 0
    /\ songs \in AppFiles
    /\ prefs \in UserRows
    /\ cam = "running"
    /\ ev = NoFrame
    /\ CamIdle
    /\ TtsIdle

CamNext ==
    \/ CameraLoopStart
    \/ TkRunCallback
    \/ \E t \in CamThreads : ReadFrame(t)
    \/ \E t \in CamThreads : EnterFrame(t)
    \/ \E t \in CamThreads : GateFrame(t)
    \/ \E t \in CamThreads : SuggestFrame(t)
    \/ \E t \in CamThreads : CommitFrame(t)
    \/ \E t \in CamThreads : Reschedule(t)
    \/ CamTick

CameraSpec == CamInit /\ [][CamNext]_vars

\* thread t is inside process_camera_frame / has passed the cooldown condition
\* and not yet assigned the globals
InFrame(t) == th[t].pc \in {"enter", "gate", "suggest", "commit"}
PassedGate(t) == th[t].pc \in {"suggest", "commit"}

\* C13: as wired, no two executions of process_camera_frame overlap: while one
\* thread is inside it the other is not, and no _update callback is waiting;
\* so two detections never both pass the cooldown condition before one of
\* them has assigned last_mood and last_suggest_time.
C13_NoOverlappingFrames ==
    /\ ~(InFrame("camera") /\ InFrame("tk"))
    /\ ~(PassedGate("camera") /\ PassedGate("tk"))
    /\ \A t \in CamThreads : InFrame(t) => after_q = 0
    /\ after_q <= 1

\* the Tk thread is about to commit a detection after the camera thread has
\* committed one and ended
C13_Witness ==
    /\ th.camera.pc = "done"
    /\ last_mood # None
    /\ th.tk.pc = "commit"
    /\ th.tk.mood # last_mood

-----------------------------------------------------------------------------
(* The speech queue: speak puts (text, lang) on a queue.Queue from whatever *)
(* thread calls it, and one daemon thread runs _speaker_loop (app.py) or    *)
(* _loop (tts_helper.py); the two loops differ only in what they print.     *)
(* An item carries the number of its put and the thread that put it, which  *)
(* stand for its text; puts, handled and done record the history.           *)

Producers == {"tk", "camera"}
Langs == {"en", "fr"}

\* lang if lang in ['en', 'hi'] else 'en'
GttsLang(lang) == IF lang \in {"en", "hi"} THEN lang ELSE "en"

\* _use_gtts is assigned True once and never again
_use_gtts == TRUE

\* a mutant of AfterFinally: no outer handler, so a failure of both
\* back-ends leaves the loop once the finally clause has run
AfterFinallyPropagate(failed) == IF failed THEN "dead" ELSE "top"

\* where the loop goes after the finally clause: `except Exception` has
\* swallowed whatever the back-ends raised, so back to the while test
AfterFinally(failed) == "top"

AtWorker(pc) == worker.pc = pc
WorkerGoto(pc) == worker' = [worker EXCEPT !.pc = pc]

\* speak(text, lang): _speak_queue.put((text, lang)), atomic under the queue's
\* lock
SpeakPut(p, lang) ==
    /\ Len(puts) < MaxSpeak
    /\ LET item == [id |-> Len(puts) + 1, by |-> p, lang |-> lang]
       IN  /\ speak_queue' = Append(speak_queue, item)
           /\ puts' = Append(puts, item)
    /\ unfinished_tasks' = unfinished_tasks + 1
    /\ UNCHANGED <<q, out, now, last_mood, last_suggest_time, songs, prefs, cam, ev,
                   camVars, stop_event, worker, handled, done>>

\* stop_speaker / stop: the event is set
StopSpeaker ==
    /\ ~stop_event
    /\ stop_event' = TRUE
    /\ UNCHANGED <<q, out, now, last_mood, last_suggest_time, songs, prefs, cam, ev,
                   camVars, speak_queue, unfinished_tasks, worker, puts, handled, done>>

\* while not _speaker_stop_event.is_set()
WhileTest ==
    /\ AtWorker("top")
    /\ WorkerGoto(IF stop_event THEN "exited" ELSE "get")
    /\ UNCHANGED <<q, out, now, last_mood, last_suggest_time, songs, prefs, cam, ev,
                   camVars, speak_queue, unfinished_tasks, stop_event, puts, handled,
                   done>>

\* text, lang = _speak_queue.get(timeout=0.5), or queue.Empty and continue
QueueGet ==
    /\ AtWorker("get")
    /\ IF speak_queue = <<>>
         THEN /\ WorkerGoto("top")
              /\ UNCHANGED <<speak_queue, handled>>
         ELSE /\ worker' = [pc |-> IF _use_gtts THEN "gtts" ELSE "engine",
                            item |-> Head(speak_queue), failed |-> FALSE]
              /\ speak_queue' = Tail(speak_queue)
              /\ handled' = Append(handled, Head(speak_queue))
    /\ UNCHANGED <<q, out, now, last_mood, last_suggest_time, songs, prefs, cam, ev,
                   camVars, unfinished_tasks, stop_event, puts, done>>

\* gTTS(...), save, playsound, remove; any Exception goes to the fallback
Gtts ==
    /\ AtWorker("gtts")
    /\ \E raised \in BOOLEAN : WorkerGoto(IF raised THEN "engine" ELSE "finally")
    /\ UNCHANGED <<q, out, now, last_mood, last_suggest_time, songs, prefs, cam, ev,
                   camVars, speak_queue, unfinished_tasks, stop_event, puts, handled,
                   done>>

\* _engine.say(text); _engine.runAndWait(); an Exception reaches the outer
\* handler, which prints it
Engine ==
    /\ AtWorker("engine")
    /\ \E raised \in BOOLEAN :
           worker' = [worker EXCEPT !.pc = "finally", !.failed = raised]
    /\ UNCHANGED <<q, out, now, last_mood, last_suggest_time, songs, prefs, cam, ev,
                   camVars, speak_queue, unfinished_tasks, stop_event, puts, handled,
                   done>>

\* finally: _speak_queue.task_done()
Finally ==
    /\ AtWorker("finally")
    /\ unfinished_tasks' = unfinished_tasks - 1
    /\ done' = Append(done, [id |-> worker.item.id, failed |-> worker.failed,
                             lang |-> GttsLang(worker.item.lang)])
    /\ worker' = [pc |-> AfterFinally(worker.failed), item |-> NoItem,
                  failed |-> FALSE]
    /\ UNCHANGED <<q, out, now, last_mood, last_suggest_time, songs, prefs, cam, ev,
                   camVars, speak_queue, stop_event, puts, handled>>

SpeechInit ==
    /\ q = IdleQuery
    /\ out = NoCall
    /\ now = StartTime
    /\ last_mood = None
    /\ last_suggest_time = 0
    /\ songs = MissingFile
    /\ prefs = <<>>
    /\ cam = "running"
    /\ ev = NoFrame
    /\ CamIdle
    /\ TtsIdle

SpeechNext ==
    \/ \E p \in Producers, lang \in Langs : SpeakPut(p, lang)
    \/ StopSpeaker
    \/ WhileTest
    \/ QueueGet
    \/ Gtts
    \/ Engine
    \/ Finally

SpeechSpec == SpeechInit /\ [][SpeechNext]_vars

Ids(seq) == [i \in 1..Len(seq) |-> seq[i].id]
Handling == worker.pc \in {"gtts", "engine", "finally"}
FinishedHandled == IF Handling THEN Len(handled) - 1 ELSE Len(handled)

\* C14: whatever threads call speak and however their calls interleave with
\* the worker, the items are handled one at a time in the order they were
\* put; task_done has been called exactly once for every dequeued item whose
\* handling is over, also when both back-ends raised; the worker is never
\* ended by a failure, and has left its loop only if the stop event is set.
C14_SpeechQueue ==
    /\ handled = SubSeq(puts, 1, Len(handled))
    /\ speak_queue = SubSeq(puts, Len(handled) + 1, Len(puts))
    /\ Handling => worker.item = handled[Len(handled)]
    /\ Ids(done) = SubSeq(Ids(handled), 1, FinishedHandled)
    /\ unfinished_tasks = Len(puts) - Len(done)
    /\ worker.pc # "dead"
    /\ worker.pc = "exited" => stop_event

\* two threads have put items, both back-ends raised on the first, and the
\* worker went on to finish the second
C14_Witness ==
    /\ Len(done) >= 2
    /\ done[1].failed
    /\ ~done[2].failed
    /\ puts[1].by # puts[2].by

-----------------------------------------------------------------------------
(* Manual recommendations: the Scan and Talk buttons beside the camera loop *)

ManualTick ==
    /\ now < StartTime + ManualHorizon
    /\ now' = now + 1
    /\ ev' = NoFrame
    /\ UNCHANGED <<q, out, last_mood, last_suggest_time, songs, prefs, cam, camVars,
                   ttsVars>>

ManualNext == CameraFrame \/ TriggerScan \/ VoiceCommand \/ ManualTick

ManualSpec == Init /\ [][ManualNext]_vars

\* the latest step was a run of trigger_scan or voice_command_handler / one
\* that got a mood to recommend for
ManualStep ==
    ev.kind \in {"scan", "scan_raised", "scan_none", "voice", "voice_raised",
                 "voice_unknown"}
ManualMood == ev.kind \in {"scan", "scan_raised", "voice", "voice_raised"}

\* C15: a run of trigger_scan that got a frame, or of voice_command_handler
\* that recognised a command, calls suggest_music whatever last_mood and the
\* time since last_suggest_time are, and no run of either changes last_mood
\* or last_suggest_time; so a camera detection among them is still decided
\* by the mood and time of the last camera-driven commit.
C15_ManualBypassesGate ==
    /\ ManualMood => ev.invoked
    /\ ManualStep => GateUnchanged
    /\ C5_EligibleExactlyWhen

\* a scan recommends a song for the mood last suggested for, inside the
\* throttle window of the camera's last commit
C15_Witness ==
    /\ ev.kind = "scan"
    /\ ev.found
    /\ ev.pre_mood # None
    /\ ev.mood = ev.pre_mood
    /\ ev.elapsed < ANALYSIS_THROTTLE_SECONDS

\* a voice command recommends for a mood other than the last suggested one
\* during the cooldown, and the gate keeps the camera's commit
C15_WitnessVoice ==
    /\ ev.kind = "voice"
    /\ ev.pre_mood # None
    /\ ev.mood # ev.pre_mood
    /\ ev.elapsed < MOOD_COOLDOWN_SECONDS
    /\ last_mood = ev.pre_mood

====
